---- MODULE Spec2Model ----
(***************************************************************************)
(* A model of the TGJU fetcher.  The repository holds two programs:        *)
(*   - src/server.js        ("server"):  cache object, refreshCache,       *)
(*                           normalizeAllPrices, /rates with ?symbols=     *)
(*   - src/unnamed/part_000 ("fetcher"): CACHE / CACHE_AT, getData,        *)
(*                           fetchTgju, buildGroups, /rates with ?group=   *)
(* JavaScript values are records tagged with their typeof; strings are     *)
(* sequences of one-character strings so that the string functions of the  *)
(* code (startsWith, includes, split, trim, Number) are computed.          *)
(***************************************************************************)
EXTENDS Integers, Sequences, FiniteSets, TLC

VARIABLES
  program,   \* which of the two programs runs: "server" or "fetcher"
  clock,     \* Date.now(), in the unit of the program's TTL
  cache,     \* server.js: the cache object
  CACHE,     \* part_000: the cached Snapshot, or Null
  CACHE_AT,  \* part_000: the cache timestamp
  reqs,      \* the requests suspended on their upstream call, by connection
  last,      \* history: the outcome of the request answered last
  calls,     \* history: the number of upstream calls issued so far
  cacheBy,   \* history: the upstream call whose result the cache holds, 0 at start
  fieldBy,   \* history, server.js: for each field of cache, the upstream call
             \* of the refreshCache that assigned it last, 0 at start
  stage, current, groups, all  \* the grouping pipeline run on one payload

vars == <<program, clock, cache, CACHE, CACHE_AT, reqs, last, calls, cacheBy, fieldBy,
          stage, current, groups, all>>

cacheVars == <<program, clock, cache, CACHE, CACHE_AT, reqs, last, calls, cacheBy, fieldBy>>

pureVars == <<stage, current, groups, all>>

-----------------------------------------------------------------------------
(* JavaScript values *)

Undef == [t |-> "undefined"]

Null == [t |-> "null"]

NaN == [t |-> "number", nan |-> TRUE]

Num(n) == [t |-> "number", n |-> n]

Str(s) == [t |-> "string", s |-> s]

Obj(f) == [t |-> "object", f |-> f]

Arr == [t |-> "array"]

EmptyObj == Obj(<<>>)

\* v == null (loose): null or undefined.
IsNullish(v) == v.t \in {"undefined", "null"}

IsFinite(v) == v.t = "number" /\ "n" \in DOMAIN v

\* a ?? b
Coalesce(a, b) == IF IsNullish(a) THEN b ELSE a

\* ToBoolean
Truthy(v) ==
  CASE v.t = "undefined" -> FALSE
    [] v.t = "null" -> FALSE
    [] v.t = "number" -> IsFinite(v) /\ v.n # 0
    [] v.t = "string" -> v.s # <<>>
    [] OTHER -> TRUE

\* a || b
OrElse(a, b) == IF Truthy(a) THEN a ELSE b

\* item?.k and item.k: own property k of a plain object; undefined on null,
\* undefined, numbers, strings and arrays (no field name read by the code is
\* a property of those).
Get(v, k) == IF v.t = "object" /\ k \in DOMAIN v.f THEN v.f[k] ELSE Undef

-----------------------------------------------------------------------------
(* Strings *)

UpperCase == <<"A","B","C","D","E","F","G","H","I","J","K","L","M",
               "N","O","P","Q","R","S","T","U","V","W","X","Y","Z">>

LowerCase == <<"a","b","c","d","e","f","g","h","i","j","k","l","m",
               "n","o","p","q","r","s","t","u","v","w","x","y","z">>

Digits == <<"0","1","2","3","4","5","6","7","8","9">>

\* The Persian digits and the Arabic-Indic digits, named by their value.
FaDigits == <<"fa0","fa1","fa2","fa3","fa4","fa5","fa6","fa7","fa8","fa9">>

ArDigits == <<"ar0","ar1","ar2","ar3","ar4","ar5","ar6","ar7","ar8","ar9">>

Range(s) == {s[i] : i \in DOMAIN s}

IndexOf(c, s) == CHOOSE i \in DOMAIN s : s[i] = c

UpperSet == Range(UpperCase)

LowerSet == Range(LowerCase)

DigitSet == Range(Digits)

ToLowerMap == [c \in UpperSet |-> LowerCase[IndexOf(c, UpperCase)]]

ToUpperMap == [c \in LowerSet |-> UpperCase[IndexOf(c, LowerCase)]]

DigitMap == [c \in DigitSet |-> IndexOf(c, Digits) - 1]

\* The Western digit of every Persian and Arabic-Indic digit.
EnglishMap == [c \in Range(FaDigits) \cup Range(ArDigits) |->
                 IF c \in Range(FaDigits) THEN Digits[IndexOf(c, FaDigits)]
                 ELSE Digits[IndexOf(c, ArDigits)]]

LowerChar(c) == IF c \in UpperSet THEN ToLowerMap[c] ELSE c

UpperChar(c) == IF c \in LowerSet THEN ToUpperMap[c] ELSE c

toLowerCase(s) == [i \in DOMAIN s |-> LowerChar(s[i])]

toUpperCase(s) == [i \in DOMAIN s |-> UpperChar(s[i])]

\* s has w at position i
HasAt(s, w, i) == \A j \in 1..Len(w) : s[i + j - 1] = w[j]

startsWith(s, p) == Len(s) >= Len(p) /\ HasAt(s, p, 1)

endsWith(s, p) == Len(s) >= Len(p) /\ HasAt(s, p, Len(s) - Len(p) + 1)

includes(s, w) == \E i \in 1..(Len(s) - Len(w) + 1) : HasAt(s, w, i)

\* s.slice(n)
slice(s, n) == SubSeq(s, n + 1, Len(s))

IsSpace(c) == c = " "

RECURSIVE trimStart(_)
trimStart(s) == IF s # <<>> /\ IsSpace(Head(s)) THEN trimStart(Tail(s)) ELSE s

RECURSIVE trimEnd(_)
trimEnd(s) ==
  IF s # <<>> /\ IsSpace(s[Len(s)]) THEN trimEnd(SubSeq(s, 1, Len(s) - 1)) ELSE s

trim(s) == trimEnd(trimStart(s))

\* s.replace(/,/g, "")
removeCommas(s) == SelectSeq(s, LAMBDA c : c # ",")

\* s.split(/[-_]/)[0]
RECURSIVE firstSegment(_)
firstSegment(s) ==
  IF s = <<>> \/ Head(s) \in {"-", "_"} THEN <<>> ELSE <<Head(s)>> \o firstSegment(Tail(s))

RECURSIVE DecimalValue(_)
DecimalValue(s) ==
  IF s = <<>> THEN 0 ELSE 10 * DecimalValue(SubSeq(s, 1, Len(s) - 1)) + DigitMap[s[Len(s)]]

\* Number(s) on the strings of the model (digits, comma, space, letters,
\* Persian and Arabic digits): white space is trimmed, the empty string is 0,
\* a run of ASCII digits is its value, anything else is NaN.
StringToNumber(s) ==
  LET c == trim(s) IN
    IF c = <<>> THEN Num(0)
    ELSE IF \A i \in DOMAIN c : c[i] \in DigitSet THEN Num(DecimalValue(c))
    ELSE NaN


RECURSIVE NumberToString(_)
NumberToString(n) ==
  IF n < 10 THEN <<Digits[n + 1]>> ELSE NumberToString(n \div 10) \o <<Digits[(n % 10) + 1]>>

\* String(v) for the values that reach it: a string is itself, a number its
\* decimal digits, an object "[object Object]" (one symbolic character).
jsString(v) ==
  CASE v.t = "string" -> v.s
    [] IsFinite(v) -> NumberToString(v.n)
    [] v.t = "number" -> <<"NaN">>
    [] OTHER -> <<"[object Object]">>

\* new Date().toISOString(): the time of normalization, one symbolic string.
IsoNow == <<"iso-now">>

\* The source URL, one symbolic string.
TGJU_JSON_URL == <<"https://call2.tgju.org/ajax.json">>

-----------------------------------------------------------------------------
(* src/unnamed/part_000: normalizer and classifier *)

\* x && typeof x === "object" && !Array.isArray(x)
isObj(x) == x.t = "object"

digitsToEnglish(s) ==
  [i \in DOMAIN s |-> IF s[i] \in DOMAIN EnglishMap THEN EnglishMap[s[i]] ELSE s[i]]

num(v) ==
  CASE IsNullish(v) -> Null
    [] v.t = "number" -> IF IsFinite(v) THEN v ELSE Null
    [] v.t = "string" ->
         LET cleaned == trim(v.s) IN
           IF cleaned = <<>> THEN Null
           ELSE LET n == StringToNumber(removeCommas(digitsToEnglish(cleaned))) IN
                  IF IsFinite(n) THEN n ELSE Null
    [] OTHER -> Null

safeStr(v) == IF v.t = "string" THEN v ELSE Str(<<>>)

pickTs(item) ==
  LET ts == OrElse(safeStr(Get(item, "dt")),
            OrElse(safeStr(Get(item, "ts")),
            OrElse(safeStr(Get(item, "date")),
            OrElse(safeStr(Get(item, "time")),
            OrElse(safeStr(Get(item, "last")), Str(<<>>))))))
  IN IF trim(ts.s) # <<>> THEN Str(trim(ts.s)) ELSE Str(<<>>)

CRYPTO_TOKENS == {
    <<"b","t","c">>, <<"e","t","h">>, <<"u","s","d","t">>, <<"x","r","p">>,
    <<"t","r","x">>, <<"l","t","c">>, <<"b","c","h">>, <<"b","n","b">>,
    <<"a","d","a">>, <<"d","o","g","e">>, <<"d","o","t">>, <<"s","o","l">>,
    <<"m","a","t","i","c">>, <<"s","h","i","b">>, <<"a","v","a","x">>, <<"a","t","o","m">>,
    <<"l","i","n","k">>, <<"x","l","m">>, <<"e","o","s">>, <<"e","t","c">>,
    <<"o","m","g">>, <<"x","a","u","t">>, <<"t","o","n">>}

W_price == <<"p","r","i","c","e","_">>

isCryptoKey(key) ==
  LET k == toLowerCase(key) IN
    IF endsWith(k, <<"-","i","r","r">>) \/ endsWith(k, <<"_","i","r","r">>)
    THEN firstSegment(k) \in CRYPTO_TOKENS
    ELSE IF startsWith(k, W_price) THEN slice(k, 6) \in CRYPTO_TOKENS
    ELSE FALSE

isGoldKey(key) ==
  LET k == toLowerCase(key) IN
    \/ startsWith(k, <<"t","g","j","u","_","g","o","l","d">>)
    \/ startsWith(k, <<"s","i","l","v","e","r">>)
    \/ includes(k, <<"s","e","k","e","e">>) \/ includes(k, <<"s","e","k","e","b">>) \/ includes(k, <<"r","o","b">>)
    \/ includes(k, <<"n","i","m">>) \/ includes(k, <<"g","e","r","a","m","i">>)
    \/ includes(k, <<"g","o","l","d">>) \/ includes(k, <<"x","a","u">>)

isFiatKey(key) ==
  LET k == toLowerCase(key)
      after == slice(k, 6)
  IN /\ startsWith(k, W_price)
     /\ ~isCryptoKey(k)
     /\ ~isGoldKey(k)
     /\ \/ after \in {<<"d","o","l","l","a","r","_","r","l">>, <<"d","o","l","l","a","r","_","e","x">>, <<"d","o","l","l","a","r","_","d","t">>,
                      <<"e","u","r">>, <<"g","b","p">>}
        \/ (Len(after) = 3 /\ \A i \in 1..3 : after[i] \in LowerSet)

\* src/unnamed/part_001 holds the lines of looksCryptoKey (163-170, 177-181,
\* 184-186) with lines of another function between them.
CRYPTO_KEYWORDS == CRYPTO_TOKENS \cup {<<"t","e","t","h","e","r">>}

looksCryptoKey(key) ==
  LET k == toLowerCase(key) IN
    IF endsWith(k, <<"-","i","r","r">>) \/ endsWith(k, <<"_","i","r","r">>)
    THEN \E c \in CRYPTO_KEYWORDS : startsWith(k, c)
    ELSE IF startsWith(k, W_price) THEN slice(k, 6) \in CRYPTO_KEYWORDS
    ELSE \E c \in CRYPTO_KEYWORDS :
           k = c \/ includes(k, c \o <<"-">>) \/ includes(k, c \o <<"_">>)

normalizeEntry(key, item) ==
  [code |-> Str(key),
   name |-> OrElse(OrElse(Get(item, "name"), Get(item, "title")), Str(<<>>)),
   label |-> OrElse(OrElse(OrElse(Get(item, "label"), Get(item, "p")), Get(item, "n")), Str(<<>>)),
   price |-> Coalesce(Coalesce(Coalesce(num(Get(item, "current")), num(Get(item, "price"))),
                               num(item)), Num(0)),
   change |-> Coalesce(Coalesce(Get(item, "diff"), Get(item, "change")), Str(<<"0">>)),
   low |-> Coalesce(num(Get(item, "tolerance_low")), Null),
   high |-> Coalesce(num(Get(item, "tolerance_high")), Null),
   ts |-> pickTs(item),
   source |-> Str(TGJU_JSON_URL),
   raw_key |-> Str(key)]

\* The "current" container: its entries <<[key, item], ...>> in the order of
\* the upstream JSON, the keys distinct.
Dict(entries) == [t |-> "object", e |-> entries]

Entries(obj) == IF "e" \in DOMAIN obj THEN obj.e ELSE <<>>

\* obj[k] = entry
Put(obj, k, entry) == [c \in DOMAIN obj \cup {k} |-> IF c = k THEN entry ELSE obj[c]]

\* The if chain of buildGroups' loop body, one branch per collection: a key
\* reaches a branch when no earlier branch took it (continue).
FiledGold(key) == isGoldKey(key)

\* The crypto branch reached also by a key the gold branch took (no continue).
FiledCrypto_fallThrough(key) == isCryptoKey(key)

FiledCrypto(key) == ~isGoldKey(key) /\ isCryptoKey(key)

FiledFiat(key) == ~isGoldKey(key) /\ ~isCryptoKey(key) /\ isFiatKey(key)

RECURSIVE buildGroupsLoop(_, _)
buildGroupsLoop(entries, acc) ==
  IF entries = <<>> THEN acc
  ELSE LET key == Head(entries).key
           entry == normalizeEntry(key, Head(entries).item)
       IN buildGroupsLoop(Tail(entries),
            [fiat |-> IF FiledFiat(key) THEN Put(acc.fiat, key, entry) ELSE acc.fiat,
             crypto |-> IF FiledCrypto(key) THEN Put(acc.crypto, key, entry) ELSE acc.crypto,
             gold |-> IF FiledGold(key) THEN Put(acc.gold, key, entry) ELSE acc.gold])

EmptyGroups == [fiat |-> <<>>, crypto |-> <<>>, gold |-> <<>>]

buildGroups(currentObj) == buildGroupsLoop(Entries(currentObj), EmptyGroups)

-----------------------------------------------------------------------------
(* src/server.js: normalizer *)

toNumber(v) ==
  CASE IsNullish(v) -> Null
    [] v.t = "number" -> IF IsFinite(v) THEN v ELSE Null
    [] v.t = "string" ->
         LET n == StringToNumber(trim(removeCommas(v.s))) IN
           IF IsFinite(n) THEN n ELSE Null
    [] OTHER -> Null

safeString(v) == IF v.t = "string" THEN v ELSE Str(<<>>)

pickTsServer(item) ==
  LET ts == OrElse(safeString(Get(item, "dt")),
            OrElse(safeString(Get(item, "ts")),
            OrElse(safeString(Get(item, "date")),
            OrElse(safeString(Get(item, "time")), Str(<<>>)))))
  IN IF trim(ts.s) # <<>> THEN ts ELSE Str(IsoNow)

SPECIAL_CODE_MAP(raw) ==
  CASE raw = <<"d","o","l","l","a","r","_","r","l">> -> Str(<<"u","s","d">>)
    [] raw = <<"d","o","l","l","a","r","_","e","x">> -> Str(<<"u","s","d","_","o","f","f","i","c","i","a","l">>)
    [] raw = <<"d","o","l","l","a","r","_","s","m">> -> Str(<<"u","s","d","_","s","m">>)
    [] raw = <<"e","u","r","_","e","x">> -> Str(<<"e","u","r","_","o","f","f","i","c","i","a","l">>)
    \* a name Object.prototype defines: the lookup yields that function
    [] raw = <<"c","o","n","s","t","r","u","c","t","o","r">> -> [t |-> "function"]
    [] OTHER -> Undef

\* The codes LABELS has a Persian label for.
LABELS == {
    <<"u","s","d">>, <<"e","u","r">>, <<"g","b","p">>, <<"a","e","d">>,
    <<"t","r","y">>, <<"c","a","d">>, <<"s","a","r">>, <<"q","a","r">>,
    <<"k","w","d">>, <<"b","h","d">>, <<"i","q","d">>, <<"c","n","y">>,
    <<"j","p","y">>, <<"c","h","f">>, <<"r","u","b">>, <<"u","s","d","_","o","f","f","i","c","i","a","l">>}

\* priceKey.replace(/^price_/, "")
tgjuKeyToCode(priceKey) ==
  LET raw == IF startsWith(priceKey, W_price) THEN slice(priceKey, 6) ELSE priceKey
  IN OrElse(SPECIAL_CODE_MAP(raw), Str(raw))

\* typeof item === "object" && item !== null
IsObjectItem(item) == item.t \in {"object", "array"}

\* LABELS[code] || code.toUpperCase(); the Persian label of a code is the
\* symbolic string <<"label", code...>>.
labelOf(code) == IF code \in LABELS THEN Str(<<"label">> \o code) ELSE Str(toUpperCase(code))

serverEntry(key, code, item) ==
  LET low0 == IF IsObjectItem(item)
              THEN toNumber(Coalesce(Get(item, "low"), Get(item, "l"))) ELSE Null
      high0 == IF IsObjectItem(item)
               THEN toNumber(Coalesce(Get(item, "high"), Get(item, "h"))) ELSE Null
      swap == ~IsNullish(low0) /\ ~IsNullish(high0) /\ low0.n > high0.n
  IN [code |-> Str(code),
      label |-> labelOf(code),
      price |-> IF IsObjectItem(item)
                THEN toNumber(Coalesce(Coalesce(Coalesce(Get(item, "p"), Get(item, "price")),
                                                Get(item, "value")), Get(item, "last")))
                ELSE toNumber(item),
      change |-> IF IsObjectItem(item)
                 THEN Str(jsString(Coalesce(Coalesce(Get(item, "d"), Get(item, "change")), Str(<<>>))))
                 ELSE Str(<<>>),
      low |-> IF swap THEN high0 ELSE low0,
      high |-> IF swap THEN low0 ELSE high0,
      ts |-> IF IsObjectItem(item) THEN pickTsServer(item) ELSE Str(IsoNow),
      source |-> Str(TGJU_JSON_URL),
      raw_key |-> Str(key)]

\* The loop of normalizeAllPrices over Object.entries(current).  A code that
\* is no string (a function inherited from Object.prototype) makes
\* code.toUpperCase() throw a TypeError: threw is set and the loop ends.
RECURSIVE normalizeLoop(_, _)
normalizeLoop(entries, out) ==
  IF entries = <<>> THEN [threw |-> FALSE, out |-> out]
  ELSE LET key == Head(entries).key
           item == Head(entries).item
           code == tgjuKeyToCode(key)
       IN IF ~startsWith(key, W_price) THEN normalizeLoop(Tail(entries), out)
          ELSE IF ~Truthy(code) THEN normalizeLoop(Tail(entries), out)
          ELSE IF code.t # "string"
               THEN (IF IsNullish(serverEntry(key, <<>>, item).price)
                     THEN normalizeLoop(Tail(entries), out)
                     ELSE [threw |-> TRUE, out |-> out])
          ELSE LET entry == serverEntry(key, code.s, item) IN
                 IF IsNullish(entry.price) THEN normalizeLoop(Tail(entries), out)
                 ELSE normalizeLoop(Tail(entries), Put(out, code.s, entry))

normalizeAllPrices(json) ==
  LET cur == Get(json, "current") IN
    IF ~Truthy(cur) \/ ~IsObjectItem(cur) THEN [threw |-> FALSE, out |-> <<>>]
    ELSE normalizeLoop(Entries(cur), <<>>)


-----------------------------------------------------------------------------
(* Upstream payloads *)

\* The upstream keys the model draws from: the keys of the end-to-end
\* scenario, keys that match two rule sets at once, keys with a special code,
\* an upper-case key, an empty remainder, a name of Object.prototype, and
\* keys with a ticker as a later segment, before the suffix, as the start of
\* a longer segment and as the end of one.
Keys == {
    <<"p","r","i","c","e","_","u","s","d">>,
    <<"p","r","i","c","e","_","b","t","c">>,
    <<"t","g","j","u","_","g","o","l","d","_","1","8">>,
    <<"s","o","m","e","_","i","n","d","e","x">>,
    <<"b","t","c","-","i","r","r">>,
    <<"x","a","u","t","-","i","r","r">>,
    <<"u","s","d","t","_","i","r","r">>,
    <<"p","r","i","c","e","_","x","a","u">>,
    <<"p","r","i","c","e","_","x","a","u","t">>,
    <<"g","o","l","d","_","b","t","c","-","i","r","r">>,
    <<"p","r","i","c","e","_","d","o","l","l","a","r","_","r","l">>,
    <<"p","r","i","c","e","_","s","i","l","v","e","r">>,
    <<"s","i","l","v","e","r","_","9","9","9">>,
    <<"P","R","I","C","E","_","E","U","R">>,
    <<"p","r","i","c","e","_","r","o","b">>,
    <<"p","r","i","c","e","_">>,
    <<"p","r","i","c","e","_","c","o","n","s","t","r","u","c","t","o","r">>,
    <<"p","r","i","c","e","_","n","i","m","_","b","t","c">>,
    <<"b","t","c","_","g","o","l","d">>,
    <<"x","_","b","t","c">>,
    <<"u","s","d","_","b","t","c","-","i","r","r">>,
    <<"b","t","c","x","-","i","r","r">>,
    <<"a","b","t","c","_","x">>}

\* The upstream values the model draws from: scalars (numeric strings with
\* separators and Persian digits, text, the empty string, a lone comma, a
\* number, a non-finite number, null, an array) and objects with the fields
\* the two normalizers read.
Items == {
    Str(<<"5","8",",","0","0","0">>),
    Str(<<"fa1","fa2",",","ar3">>),
    Str(<<"a","b","c">>),
    Str(<<>>),
    Str(<<",">>),
    Num(2500),
    NaN,
    Null,
    Arr,
    EmptyObj,
    Obj([current |-> Str(<<"3","2","0","0">>)]),
    Obj([current |-> Str(<<"a","b","c">>), price |-> Num(7)]),
    Obj([p |-> Str(<<"a","b","c">>), price |-> Num(7)]),
    Obj([p |-> Str(<<"1","2">>), d |-> Num(3), dt |-> Str(<<"2","0","2","4">>)]),
    Obj([current |-> Num(1), tolerance_low |-> Num(100), tolerance_high |-> Num(50)]),
    Obj([current |-> Str(<<"7","0">>), tolerance_low |-> Str(<<"5","0">>),
         tolerance_high |-> Str(<<"1","0","0">>), last |-> Str(<<"1","2",":","0","0">>)]),
    Obj([p |-> Num(1), low |-> Num(100), high |-> Num(50)]),
    Obj([p |-> Str(<<"9">>), l |-> Str(<<"5">>), h |-> Str(<<"9">>),
         ts |-> Str(<<" ">>), date |-> Str(<<"d","1">>)])}

\* The values of the entries of a payload with several keys.
PlainItems == {Str(<<"5","8",",","0","0","0">>), Obj([current |-> Str(<<"3","2","0","0">>), p |-> Num(5)])}

\* The largest number of keys of a payload.
MaxKeys == 2

Injective(f) == \A i, j \in DOMAIN f : f[i] = f[j] => i = j

KeySeqs(n) == {ks \in [1..n -> Keys] : Injective(ks)}

-----------------------------------------------------------------------------
(* The upstream, the clock and the requests *)

\* Number(process.env.CACHE_SECONDS || 60) and
\* Number(process.env.CACHE_TTL_MS || 60000): the model runs the programs
\* configured with a TTL of 2 units of their clock.
CACHE_SECONDS == 2

CACHE_TTL_MS == 2

TTL == IF program = "server" THEN CACHE_TTL_MS ELSE CACHE_SECONDS

\* The clock runs for MaxTime ticks after the process started.
MaxTime == 3

\* The upstream calls one run issues.
MaxCalls == 2

\* The connections that can be open at once.
MaxReqs == 2

Reqs == 1..MaxReqs

VERSION == Str(<<"2026-02-08-1">>)

PayloadA ==
  Dict(<<[key |-> <<"p","r","i","c","e","_","u","s","d">>, item |-> Str(<<"5","8",",","0","0","0">>)],
         [key |-> <<"t","g","j","u","_","g","o","l","d","_","1","8">>, item |-> Obj([current |-> Str(<<"3","2","0","0">>)])],
         [key |-> <<"s","o","m","e","_","i","n","d","e","x">>, item |-> Str(<<"a","b","c">>)]>>)

PayloadB ==
  Dict(<<[key |-> <<"p","r","i","c","e","_","u","s","d">>, item |-> Obj([p |-> Str(<<"1","2">>), current |-> Num(12)])]>>)

PayloadIndex ==
  Dict(<<[key |-> <<"s","o","m","e","_","i","n","d","e","x">>, item |-> Str(<<"a","b","c">>)]>>)

PayloadProto ==
  Dict(<<[key |-> <<"p","r","i","c","e","_","c","o","n","s","t","r","u","c","t","o","r">>, item |-> Num(5)]>>)

\* What the upstream call can come back with: fetch() rejects (network
\* unreachable), or a status and a body; the body is no JSON, or JSON that is
\* an array, an object without "current", or an object with it.
NotJson == [t |-> "notjson"]

Bodies == {NotJson, Arr, Obj([message |-> Str(<<"x">>)])}
          \cup {Obj([current |-> c]) : c \in {PayloadA, PayloadB, PayloadIndex, PayloadProto}}

JsonBodies == Bodies \ {NotJson}

Rejects == [rejects |-> TRUE, message |-> Str(<<"fetch failed">>)]

Responses == {Rejects}
             \cup {[rejects |-> FALSE, status |-> 200, body |-> b] : b \in Bodies}
             \cup {[rejects |-> FALSE, status |-> 500, body |-> b] :
                     b \in {NotJson, Obj([current |-> PayloadA])}}

\* res.ok
ResOk(res) == res.status >= 200 /\ res.status < 300

\* JSON.parse(text) in a try, res.json().catch(() => null)
ParsedOrNull(body) == IF body = NotJson THEN Null ELSE body

IdleReq == [pc |-> "idle", force |-> FALSE, now |-> 0, call |-> 0,
            fresh |-> FALSE, recent |-> FALSE]

\* A request that is suspended on upstream call number call, having read the
\* clock as now.  History: fresh and recent tell whether, when it arrived, the
\* cache held a Snapshot younger than the TTL by the cache timestamp, and by
\* the time at which the Snapshot was stored.
Fetching(force, now, call, fresh, recent) ==
  [pc |-> "fetching", force |-> force, now |-> now, call |-> call,
   fresh |-> fresh, recent |-> recent]

NoAnswer == [outcome |-> "none"]

\* The request answered with resp built from the Snapshot data, which is the
\* result of upstream call number from; call is the request's own upstream
\* call, 0 when it issued none.
Answer(req, data, from, resp) ==
  [outcome |-> "json", force |-> req.force, now |-> req.now, call |-> req.call,
   fresh |-> req.fresh, recent |-> req.recent,
   data |-> data, from |-> from, resp |-> resp]

\* The request whose handler rejected: the caller got no JSON answer.
Rejected(req) ==
  [outcome |-> "rejected", force |-> req.force, now |-> req.now, call |-> req.call,
   fresh |-> req.fresh, recent |-> req.recent]

\* The cached Snapshot, its timestamp, and the time at which it was stored.
CacheSnapshot == IF program = "server" THEN cache ELSE CACHE

CacheTime == IF program = "server" THEN cache.fetched_at_ms ELSE CACHE_AT

HoldsSnapshot == program = "server" \/ CACHE # Null

StoredAt == IF program = "server" THEN cache.fetched_at_ms ELSE CACHE.fetched_at

Fresh == HoldsSnapshot /\ clock - CacheTime < TTL

Recent == HoldsSnapshot /\ clock - StoredAt < TTL

\* A new request takes the first free connection.
FirstFree(r) == reqs[r].pc = "idle" /\ \A q \in Reqs : q < r => reqs[q].pc # "idle"

Count(obj) == Cardinality(DOMAIN obj)

-----------------------------------------------------------------------------
(* src/unnamed/part_000: fetchTgju, getData, /rates *)

\* buildGroups(c), tabulated once for the payloads the upstream answers with.
UpstreamPayloads == {PayloadA, PayloadB, PayloadIndex, PayloadProto}

buildGroupsTable == [c \in UpstreamPayloads |-> buildGroups(c)]

buildGroupsOf(c) == IF c \in UpstreamPayloads THEN buildGroupsTable[c] ELSE buildGroups(c)

\* fetchTgju once fetch() has resolved with res, at time t.
fetchTgju(res, t) ==
  LET json == ParsedOrNull(res.body) IN
    IF ~ResOk(res) \/ ~isObj(json)
    THEN [version |-> VERSION, ok |-> FALSE, fetched_at |-> t, source |-> Str(TGJU_JSON_URL),
          http_code |-> Num(res.status), error |-> Str(<<"Failed to fetch TGJU JSON">>),
          groups |-> EmptyGroups]
    ELSE IF ~isObj(Get(json, "current"))
    THEN [version |-> VERSION, ok |-> FALSE, fetched_at |-> t, source |-> Str(TGJU_JSON_URL),
          http_code |-> Num(res.status),
          error |-> Str(<<"TGJU JSON missing 'current' object">>),
          debug_keys |-> DOMAIN json.f, groups |-> EmptyGroups]
    ELSE LET g == buildGroupsOf(Get(json, "current")) IN
         [version |-> VERSION, ok |-> TRUE, fetched_at |-> t, source |-> Str(TGJU_JSON_URL),
          http_code |-> Num(res.status), error |-> Null,
          count |-> [fiat |-> Count(g.fiat), crypto |-> Count(g.crypto), gold |-> Count(g.gold)],
          groups |-> g]

\* The /rates handler of part_000 once getData has returned data.
GroupParams == {"", "gold"}

fetcherRates(data, group) ==
  IF ~data.ok
  THEN [version |-> VERSION, ok |-> FALSE, fetched_at |-> data.fetched_at, source |-> data.source,
        http_code |-> data.http_code, error |-> data.error, rates |-> <<>>]
  ELSE IF group \in {"fiat", "crypto", "gold"}
  THEN [version |-> VERSION, ok |-> TRUE, fetched_at |-> data.fetched_at, source |-> data.source,
        http_code |-> data.http_code, error |-> Null, group |-> group,
        count |-> Count(data.groups[group]), rates |-> data.groups[group]]
  ELSE [version |-> VERSION, ok |-> TRUE, fetched_at |-> data.fetched_at, source |-> data.source,
        http_code |-> data.http_code, error |-> Null, count |-> data.count,
        rates |-> data.groups]

\* The gate without its !force conjunct.
getDataHit_ignoresForce(force, now) == CACHE # Null /\ now - CACHE_AT < CACHE_SECONDS

\* getData's gate: !force && CACHE && now - CACHE_AT < CACHE_SECONDS
getDataHit(force, now) == ~force /\ CACHE # Null /\ now - CACHE_AT < CACHE_SECONDS

\* A request to /rates arrives.  getData reads the clock and either returns
\* CACHE, and the handler answers at once, or calls fetchTgju and is
\* suspended on fetch().
FetcherArrive(r, force, group) ==
  /\ program = "fetcher"
  /\ FirstFree(r)
  /\ IF getDataHit(force, clock)
     THEN /\ last' = Answer(Fetching(force, clock, 0, Fresh, Recent), CACHE, cacheBy,
                            fetcherRates(CACHE, group))
          /\ UNCHANGED <<reqs, calls>>
     ELSE /\ calls < MaxCalls
          /\ calls' = calls + 1
          /\ reqs' = [reqs EXCEPT ![r] = Fetching(force, clock, calls + 1, Fresh, Recent)]
          /\ UNCHANGED last
  /\ UNCHANGED <<program, clock, cache, CACHE, CACHE_AT, cacheBy, fieldBy, pureVars>>

\* The upstream call of request r comes back.  A rejected fetch() is caught
\* nowhere: fetchTgju, getData and the handler reject, no Snapshot is stored
\* and the caller gets no JSON answer.  Otherwise getData stores the Snapshot
\* with the time it read on entry, and the handler answers.
FetcherRespond(r, res, group) ==
  /\ program = "fetcher"
  /\ reqs[r].pc = "fetching"
  /\ reqs' = [reqs EXCEPT ![r] = IdleReq]
  /\ IF res.rejects
     THEN /\ last' = Rejected(reqs[r])
          /\ UNCHANGED <<CACHE, CACHE_AT, cacheBy>>
     ELSE LET data == fetchTgju(res, clock) IN
          /\ CACHE' = data
          /\ CACHE_AT' = reqs[r].now
          /\ cacheBy' = reqs[r].call
          /\ last' = Answer(reqs[r], data, reqs[r].call, fetcherRates(data, group))
  /\ UNCHANGED <<program, clock, cache, calls, fieldBy, pureVars>>

-----------------------------------------------------------------------------
(* src/server.js: refreshCache, /rates *)

InitialCache == [ok |-> FALSE, error |-> Str(<<"Not fetched yet">>), http_code |-> Null,
                 fetched_at_ms |-> 0, rates_all |-> <<>>, count_all |-> 0]

\* The parsed ?symbols= parameter: the empty set is null (no filter).
SymbolParams == {{}, {<<"u","s","d">>}}

serverRates(c, symbols) ==
  LET rates == IF symbols = {} THEN c.rates_all
               ELSE [code \in symbols \cap DOMAIN c.rates_all |-> c.rates_all[code]]
  IN [ok |-> c.ok, fetched_at |-> c.fetched_at_ms \div 1000, source |-> Str(TGJU_JSON_URL),
      http_code |-> c.http_code, error |-> c.error, count |-> Count(rates), rates |-> rates]

\* refreshCache's gate: !force && cache.ok && age < CACHE_TTL_MS
refreshCacheHit(force, now) == ~force /\ cache.ok /\ now - cache.fetched_at_ms < CACHE_TTL_MS

\* The catch block without cache.http_code = null.
refreshCacheCatch_keepsHttpCode(message, t) ==
  [ok |-> FALSE, error |-> OrElse(message, Str(<<"Unknown fetch error">>)),
   fetched_at_ms |-> t, rates_all |-> <<>>, count_all |-> 0]

\* The catch block without cache.ok = false.
refreshCacheCatch_keepsOk(message, t) ==
  [error |-> OrElse(message, Str(<<"Unknown fetch error">>)), http_code |-> Null,
   fetched_at_ms |-> t, rates_all |-> <<>>, count_all |-> 0]

\* The catch block of refreshCache, at time t: the assignments it makes.
refreshCacheCatch(message, t) ==
  [ok |-> FALSE, error |-> OrElse(message, Str(<<"Unknown fetch error">>)), http_code |-> Null,
   fetched_at_ms |-> t, rates_all |-> <<>>, count_all |-> 0]

\* normalizeAllPrices(json), tabulated once for the bodies the upstream
\* answers with.
normalizeAllPricesTable == [json \in JsonBodies |-> normalizeAllPrices(json)]

normalizeAllPricesOf(json) ==
  IF json \in JsonBodies THEN normalizeAllPricesTable[json] ELSE normalizeAllPrices(json)

\* The object c after the assignments c.f = w[f] for the fields f of w.
Assign(c, w) == [f \in DOMAIN c \cup DOMAIN w |-> IF f \in DOMAIN w THEN w[f] ELSE c[f]]

\* The assignments to the fields of cache that refreshCache has made once it
\* has run to its end on the upstream's answer, each field with the value
\* assigned last.
refreshCacheStore(res, t) ==
  IF res.rejects THEN refreshCacheCatch(res.message, t)
  ELSE LET json == ParsedOrNull(res.body)
           n == normalizeAllPricesOf(json)
       IN IF res.status < 200 \/ res.status >= 300 \/ ~Truthy(json)
          THEN [ok |-> FALSE,
                error |-> Str(<<"HTTP ">> \o NumberToString(res.status) \o <<" or invalid JSON">>),
                http_code |-> Num(res.status), fetched_at_ms |-> t,
                rates_all |-> <<>>, count_all |-> 0]
          ELSE IF n.threw
          THEN Assign([http_code |-> Num(res.status), fetched_at_ms |-> t],
                      refreshCacheCatch(Str(<<"code.toUpperCase is not a function">>), t))
          ELSE IF Count(n.out) = 0
          THEN [ok |-> FALSE, error |-> Str(<<"JSON fetched but no price_* items found.">>),
                http_code |-> Num(res.status), fetched_at_ms |-> t,
                rates_all |-> <<>>, count_all |-> 0]
          ELSE [ok |-> TRUE, error |-> Null, http_code |-> Num(res.status),
                fetched_at_ms |-> t, rates_all |-> n.out, count_all |-> Count(n.out)]

\* A request to /rates arrives.  refreshCache reads the clock and either
\* returns, and the handler answers from the cache at once, or calls
\* fetchTgjuJson and is suspended on fetch().
ServerArrive(r, force, symbols) ==
  /\ program = "server"
  /\ FirstFree(r)
  /\ IF refreshCacheHit(force, clock)
     THEN /\ last' = Answer(Fetching(force, clock, 0, Fresh, Recent), cache, cacheBy,
                            serverRates(cache, symbols))
          /\ UNCHANGED <<reqs, calls>>
     ELSE /\ calls < MaxCalls
          /\ calls' = calls + 1
          /\ reqs' = [reqs EXCEPT ![r] = Fetching(force, clock, calls + 1, Fresh, Recent)]
          /\ UNCHANGED last
  /\ UNCHANGED <<program, clock, cache, CACHE, CACHE_AT, cacheBy, fieldBy, pureVars>>

\* The upstream call of request r comes back: refreshCache writes the cache
\* (in its try block or in its catch block) and the handler answers from it.
ServerRespond(r, res, symbols) ==
  /\ program = "server"
  /\ reqs[r].pc = "fetching"
  /\ reqs' = [reqs EXCEPT ![r] = IdleReq]
  /\ LET w == refreshCacheStore(res, clock) IN
       /\ cache' = Assign(cache, w)
       /\ fieldBy' = [f \in DOMAIN fieldBy |-> IF f \in DOMAIN w THEN reqs[r].call ELSE fieldBy[f]]
  /\ cacheBy' = reqs[r].call
  /\ last' = Answer(reqs[r], cache', cacheBy', serverRates(cache', symbols))
  /\ UNCHANGED <<program, clock, CACHE, CACHE_AT, calls, pureVars>>

-----------------------------------------------------------------------------
(* The clock *)

StartTime == TTL

Tick ==
  /\ clock < StartTime + MaxTime
  /\ clock' = clock + 1
  /\ UNCHANGED <<program, cache, CACHE, CACHE_AT, reqs, last, calls, cacheBy, fieldBy, pureVars>>


PureIdle ==
  /\ stage = "off" /\ current = Dict(<<>>)
  /\ groups = EmptyGroups /\ all = [threw |-> FALSE, out |-> <<>>]

Init ==
  /\ program \in {"server", "fetcher"}
  /\ clock = StartTime
  /\ cache = InitialCache
  /\ CACHE = Null
  /\ CACHE_AT = 0
  /\ reqs = [r \in Reqs |-> IdleReq]
  /\ last = NoAnswer
  /\ calls = 0
  /\ cacheBy = 0
  /\ fieldBy = [f \in DOMAIN InitialCache |-> 0]
  /\ PureIdle

Next ==
  \/ \E r \in Reqs, force \in BOOLEAN, group \in GroupParams : FetcherArrive(r, force, group)
  \/ \E r \in Reqs, res \in Responses, group \in GroupParams : FetcherRespond(r, res, group)
  \/ \E r \in Reqs, force \in BOOLEAN, symbols \in SymbolParams : ServerArrive(r, force, symbols)
  \/ \E r \in Reqs, res \in Responses, symbols \in SymbolParams : ServerRespond(r, res, symbols)
  \/ Tick

Spec == Init /\ [][Next]_vars

-----------------------------------------------------------------------------
(* The grouping pipeline on one payload *)

\* buildGroups(current) of part_000.
BuildGroups ==
  /\ stage = "raw"
  /\ stage' = "grouped"
  /\ groups' = buildGroups(current)
  /\ UNCHANGED <<current, all, cacheVars>>

\* normalizeAllPrices({current}) of server.js.
NormalizeAllPrices ==
  /\ stage = "raw"
  /\ stage' = "normalized"
  /\ all' = normalizeAllPrices(Obj([current |-> current]))
  /\ UNCHANGED <<current, groups, cacheVars>>

InitGroups ==
  /\ program = "fetcher"
  /\ clock = CACHE_SECONDS
  /\ cache = InitialCache
  /\ CACHE = Null
  /\ CACHE_AT = 0
  /\ reqs = [r \in Reqs |-> IdleReq]
  /\ last = NoAnswer
  /\ calls = 0
  /\ cacheBy = 0
  /\ fieldBy = [f \in DOMAIN InitialCache |-> 0]
  /\ stage = "raw"
  \* every key with every value, and every sequence of 2..MaxKeys distinct
  \* keys with plain values
  /\ \/ \E k \in Keys, i \in Items : current = Dict(<<[key |-> k, item |-> i]>>)
     \/ \E n \in 2..MaxKeys : \E ks \in KeySeqs(n), is \in [1..n -> PlainItems] :
          current = Dict([j \in 1..n |-> [key |-> ks[j], item |-> is[j]]])
  /\ groups = EmptyGroups
  /\ all = [threw |-> FALSE, out |-> <<>>]

NextGroups == BuildGroups \/ NormalizeAllPrices

SpecGroups == InitGroups /\ [][NextGroups]_vars

-----------------------------------------------------------------------------
(* The cache: requests, upstream calls and Snapshots (Spec) *)

\* A request with the given force flag arrives at connection r.
Arrive(r, force) ==
  \/ \E group \in GroupParams : FetcherArrive(r, force, group)
  \/ \E symbols \in SymbolParams : ServerArrive(r, force, symbols)

\* The upstream call of request r comes back with res.
Respond(r, res) ==
  \/ \E group \in GroupParams : FetcherRespond(r, res, group)
  \/ \E symbols \in SymbolParams : ServerRespond(r, res, symbols)

\* The upstream failed: the call was rejected, the status is not 2xx, the
\* body is not JSON, or it is JSON without a "current" container.
UpstreamFailed(res) ==
  \/ res.rejects
  \/ res.status < 200 \/ res.status > 299
  \/ res.body = NotJson
  \/ res.body.t # "object"
  \/ "current" \notin DOMAIN res.body.f

\* C1: a non-forced request that arrives while the cache holds a Snapshot
\* whose age is below the TTL issues no upstream call: no non-forced request
\* that found a fresh Snapshot is ever waiting for the upstream, and the one
\* answered issued no call and was served the cached Snapshot.
C1_FreshIsServedFromCache ==
  /\ \A r \in Reqs : (reqs[r].pc = "fetching" /\ ~reqs[r].force) => ~reqs[r].fresh
  /\ (last.outcome = "json" /\ ~last.force /\ last.fresh) => last.call = 0

\* C2: while the cache holds the Snapshot of a failed refresh and its age is
\* below the TTL, a non-forced request issues no upstream call and is served
\* that failed Snapshot.
C2_FailedSnapshotIsReused ==
  [][\A r \in Reqs :
       (Fresh /\ cacheBy # 0 /\ ~CacheSnapshot.ok /\ Arrive(r, FALSE))
         => (calls' = calls /\ last'.outcome = "json" /\ last'.data = CacheSnapshot)]_vars

\* C3: whichever way the upstream fails, the request gets an ordinary answer
\* with ok false, empty rates and an error text, nothing is raised to the
\* caller, and the failure is the Snapshot in the cache.
C3_FailureIsAnOrdinaryAnswer ==
  [][\A r \in Reqs, res \in Responses :
       (UpstreamFailed(res) /\ Respond(r, res))
         => /\ last'.outcome = "json"
            /\ ~last'.resp.ok
            /\ Count(last'.resp.rates) = 0
            /\ Truthy(last'.resp.error)
            /\ cacheBy' = reqs[r].call
            /\ CacheSnapshot' = last'.data
            /\ ~CacheSnapshot'.ok]_vars

\* C4: a forced request always issues a new upstream call, whatever the age
\* and the success state of the cached Snapshot, and the Snapshot it is served
\* is the result of that call.
C4_ForceAlwaysFetches ==
  /\ (last.outcome # "none" /\ last.force) => last.call # 0
  /\ (last.outcome = "json" /\ last.force)
       => /\ last.from = last.call
          \* the Snapshot served was built after the request arrived
          /\ (IF program = "server" THEN last.data.fetched_at_ms ELSE last.data.fetched_at)
               >= last.now

\* A forced request that arrived while the cache held a Snapshot younger than
\* the TTL has been served the successful result of its own upstream call,
\* the second of the run, which is now the cached Snapshot.
C4_Witness ==
  /\ last.outcome = "json" /\ last.force /\ last.fresh /\ last.recent
  /\ last.call = 2 /\ last.from = 2 /\ last.data.ok
  /\ CacheSnapshot = last.data

\* C5: two non-forced requests within one TTL window receive identical
\* Snapshots and cause one upstream call in total.  For the second request
\* arriving after the first is through: when the last request through was
\* non-forced and issued an upstream call, a non-forced request that arrives
\* less than a TTL after it arrived issues no upstream call and is served the
\* Snapshot the first was served.
C5_OneCallPerWindow ==
  [][\A r \in Reqs :
       (/\ last.outcome # "none" /\ ~last.force /\ last.call # 0
        /\ clock - last.now < TTL
        /\ Arrive(r, FALSE))
         => (/\ calls' = calls
             /\ last.outcome = "json" /\ last'.outcome = "json"
             /\ last'.call = 0 /\ last'.data = last.data)]_vars

\* C6: the cache timestamp stored with a Snapshot is the time at which the
\* Snapshot was stored, however long the upstream call took, so that a
\* non-forced request arriving less than a TTL after a successful refresh
\* completed issues no upstream call.
C6_TimestampIsStoreTime ==
  [][/\ cacheBy' # 0 => CacheTime' = StoredAt'
     /\ \A r \in Reqs :
          (Recent /\ cacheBy # 0 /\ CacheSnapshot.ok /\ Arrive(r, FALSE)) => calls' = calls]_vars

-----------------------------------------------------------------------------
(* Classification and normalization of one payload (SpecGroups) *)

CurrentKeys == {current.e[i].key : i \in DOMAIN current.e}

\* The upstream value of key: with Object.entries, of its one entry.
ItemOf(key) == current.e[CHOOSE i \in DOMAIN current.e : current.e[i].key = key].item

Filed(collection) == DOMAIN collection

Codes(collection) == {collection[k].code : k \in DOMAIN collection}

AllEntries ==
  {groups.fiat[k] : k \in Filed(groups.fiat)} \cup {groups.crypto[k] : k \in Filed(groups.crypto)}
    \cup {groups.gold[k] : k \in Filed(groups.gold)}

\* The keywords of the gold rule.
GoldKeywords == {
    <<"t","g","j","u","_","g","o","l","d">>, <<"s","i","l","v","e","r">>,
    <<"s","e","k","e","e">>, <<"s","e","k","e","b">>, <<"r","o","b">>, <<"n","i","m">>,
    <<"g","e","r","a","m","i">>, <<"g","o","l","d">>, <<"x","a","u">>}

ContainsGoldKeyword(key) == \E w \in GoldKeywords : includes(toLowerCase(key), w)

\* C7: classification is first-match-wins in the order gold, crypto, fiat:
\* every key that contains a keyword of the gold rule is filed in gold, also
\* when it contains a crypto ticker or is price_ with a three-letter
\* remainder, and is filed neither as crypto nor as fiat.
C7_GoldKeywordIsGold ==
  stage = "grouped" =>
    \A key \in CurrentKeys :
      ContainsGoldKeyword(key) =>
        /\ key \in Filed(groups.gold)
        /\ key \notin Filed(groups.crypto)
        /\ key \notin Filed(groups.fiat)

\* C8: buildGroups files every upstream key in at most one collection, the
\* collections are pairwise disjoint by key and by code and hold upstream
\* keys only, and a key that no rule matches is in none of them.
C8_CollectionsAreDisjoint ==
  stage = "grouped" =>
    /\ Filed(groups.fiat) \cap Filed(groups.crypto) = {}
    /\ Filed(groups.fiat) \cap Filed(groups.gold) = {}
    /\ Filed(groups.crypto) \cap Filed(groups.gold) = {}
    /\ Codes(groups.fiat) \cap Codes(groups.crypto) = {}
    /\ Codes(groups.fiat) \cap Codes(groups.gold) = {}
    /\ Codes(groups.crypto) \cap Codes(groups.gold) = {}
    /\ Filed(groups.fiat) \cup Filed(groups.crypto) \cup Filed(groups.gold) \subseteq CurrentKeys
    /\ \A key \in CurrentKeys :
         (~isGoldKey(key) /\ ~isCryptoKey(key) /\ ~isFiatKey(key))
           => key \notin Filed(groups.fiat) \cup Filed(groups.crypto) \cup Filed(groups.gold)

\* A payload with a key that the gold rule and the crypto rule both match,
\* filed in gold only, next to a key that is filed as fiat.
C8_Witness ==
  /\ stage = "grouped"
  /\ \E key \in CurrentKeys :
       /\ isGoldKey(key) /\ isCryptoKey(key)
       /\ key \in Filed(groups.gold) /\ key \notin Filed(groups.crypto)
  /\ Filed(groups.fiat) # {}

Ordered(entry) ==
  (~IsNullish(entry.low) /\ ~IsNullish(entry.high)) => entry.low.n <= entry.high.n

\* C9: every normalized entry that has both low and high has low <= high,
\* also when the upstream supplied the bounds inverted.
C9_LowNotAboveHigh ==
  /\ stage = "grouped" => \A entry \in AllEntries : Ordered(entry)
  /\ stage = "normalized" => \A code \in DOMAIN all.out : Ordered(all.out[code])

\* The first of the three candidates that is a number, else 0.
Resolvable(v) == v.t = "number" /\ "n" \in DOMAIN v

FirstResolvable(a, b, c) ==
  IF Resolvable(a) THEN a ELSE IF Resolvable(b) THEN b ELSE IF Resolvable(c) THEN c ELSE Num(0)

\* C10: the price of an entry is the first resolvable value among its
\* current-price field, its price field and the raw value as a scalar, and 0
\* when none resolves: the entry is kept, its price is never null.  In
\* server.js the current-price field is p, and an entry is kept under its
\* code.
C10_PriceResolvesOrIsZero ==
  /\ stage = "grouped" =>
       \A collection \in {groups.fiat, groups.crypto, groups.gold} :
         \A key \in Filed(collection) :
           collection[key].price =
             FirstResolvable(num(Get(ItemOf(key), "current")), num(Get(ItemOf(key), "price")),
                             num(ItemOf(key)))
  /\ (stage = "normalized" /\ ~all.threw) =>
       \A key \in CurrentKeys :
         (startsWith(key, W_price) /\ tgjuKeyToCode(key).t = "string" /\ tgjuKeyToCode(key).s # <<>>)
           => /\ tgjuKeyToCode(key).s \in DOMAIN all.out
              /\ Resolvable(all.out[tgjuKeyToCode(key).s].price)

\* The segments of s between the separators - and _.
RECURSIVE Segments(_)
Segments(s) ==
  IF s = <<>> THEN {<<>>}
  ELSE LET first == firstSegment(s) IN
         IF Len(first) = Len(s) THEN {s}
         ELSE {first} \cup Segments(SubSeq(s, Len(first) + 2, Len(s)))

\* The segment that ends s.
RECURSIVE lastSegment(_)
lastSegment(s) ==
  IF s = <<>> \/ s[Len(s)] \in {"-", "_"} THEN <<>>
  ELSE lastSegment(SubSeq(s, 1, Len(s) - 1)) \o <<s[Len(s)]>>

\* The three crypto patterns against the ticker set.
CryptoPattern(key, tickers) ==
  LET k == toLowerCase(key)
      stem == SubSeq(k, 1, Len(k) - 4)
  IN \/ /\ endsWith(k, <<"-","i","r","r">>) \/ endsWith(k, <<"_","i","r","r">>)
        /\ lastSegment(stem) \in tickers
     \/ startsWith(k, W_price) /\ slice(k, 6) \in tickers
     \/ Segments(k) \cap tickers # {}

\* C11: a key without a gold keyword is crypto exactly when (a) it ends with
\* -irr or _irr and the token right before the suffix is a ticker, (b) it is
\* price_ followed by a ticker, or (c) a ticker is one of its segments; this
\* for the collection buildGroups files it in and for looksCryptoKey.
C11_CryptoByPattern ==
  stage = "grouped" =>
    \A key \in CurrentKeys :
      ~ContainsGoldKeyword(key) =>
        /\ key \in Filed(groups.crypto) <=> CryptoPattern(key, CRYPTO_TOKENS)
        /\ looksCryptoKey(key) <=> CryptoPattern(key, CRYPTO_KEYWORDS)

\* The timestamp aliases each normalizer reads, in its order.
TsAliases == <<"dt", "ts", "date", "time", "last">>

TsAliasesServer == <<"dt", "ts", "date", "time">>

\* ts is as claimed for the upstream value item: a non-empty string; the time
\* of normalization when no alias holds a non-empty string (a scalar holds
\* none); else the first non-empty alias value, as it is or trimmed.
TsAsClaimed(ts, item, aliases) ==
  LET value == [i \in DOMAIN aliases |-> Get(item, aliases[i])]
      nonEmpty == {i \in DOMAIN aliases : value[i].t = "string" /\ value[i].s # <<>>}
  IN /\ ts.t = "string" /\ ts.s # <<>>
     /\ nonEmpty = {} => ts = Str(IsoNow)
     /\ nonEmpty # {} =>
          LET first == value[CHOOSE i \in nonEmpty : \A j \in nonEmpty : i <= j] IN
            trim(first.s) # <<>> => ts.s \in {first.s, trim(first.s)}

\* C12: the ts of every normalized entry is the first non-empty value among
\* the aliases dt, ts, date, time (then last), and the time of normalization
\* when none is populated or the raw value is a scalar; it is never empty.
C12_TsIsNeverEmpty ==
  /\ stage = "grouped" =>
       \A collection \in {groups.fiat, groups.crypto, groups.gold} :
         \A key \in Filed(collection) : TsAsClaimed(collection[key].ts, ItemOf(key), TsAliases)
  /\ stage = "normalized" =>
       \A code \in DOMAIN all.out :
         \A key \in CurrentKeys :
           all.out[code].raw_key = Str(key)
             => TsAsClaimed(all.out[code].ts, ItemOf(key), TsAliasesServer)

\* C13: requests being suspended only on the upstream response, the cached
\* Snapshot is replaced atomically.  In every state that a request can
\* observe all fields of the server.js cache were assigned by the same
\* refresh attempt, the one whose result the cache holds; the Snapshot served
\* last, while its attempt is the cached one, is the cached Snapshot field for
\* field; and the answer carries the ok, http_code, error and fetch time of
\* that one Snapshot.
C13_ReplacementIsAtomic ==
  /\ \A f \in DOMAIN fieldBy : fieldBy[f] = (IF program = "server" THEN cacheBy ELSE 0)
  /\ (last.outcome = "json" /\ last.from = cacheBy) => last.data = CacheSnapshot
  /\ last.outcome = "json" =>
       /\ last.resp.ok = last.data.ok
       /\ last.resp.http_code = last.data.http_code
       /\ last.resp.error = last.data.error
       /\ last.resp.fetched_at =
            (IF program = "server" THEN last.data.fetched_at_ms \div 1000 ELSE last.data.fetched_at)

\* Two overlapping refreshes of server.js have completed out of order: the
\* request of the first upstream call was answered last, its refresh ended in
\* the catch block, and the cache holds a failed Snapshot wholly assigned by
\* that refresh, http_code null included.
C13_Witness ==
  /\ program = "server" /\ calls = 2
  /\ \A r \in Reqs : reqs[r].pc = "idle"
  /\ last.outcome = "json" /\ last.call = 1 /\ last.from = 1 /\ cacheBy = 1
  /\ \A f \in DOMAIN fieldBy : fieldBy[f] = 1
  /\ ~cache.ok /\ cache.http_code = Null /\ last.data = cache

\* C14: with overlapping requests through getData, CACHE_AT never decreases
\* and CACHE is never replaced by the result of an upstream call that started
\* before the call whose result it holds (calls are numbered as they start).
C14_CacheNeverGoesBack ==
  [][program = "fetcher" => (CACHE_AT' >= CACHE_AT /\ cacheBy' >= cacheBy)]_vars

\* C15: in every state of the server.js cache, initially and after any
\* refreshCache calls, count_all is the number of entries of rates_all, and
\* ok is true exactly when error is null and rates_all is not empty; a 2xx
\* answer without any price_ entry leaves ok false and rates_all empty.
C15_ServerCacheIsConsistent ==
  program = "server" =>
    /\ cache.count_all = Count(cache.rates_all)
    /\ cache.ok <=> (cache.error = Null /\ Count(cache.rates_all) > 0)
    /\ ~cache.ok => Count(cache.rates_all) = 0

\* The cache after a second refresh whose upstream answered 200 with JSON
\* that holds no price_ entry: a failure with empty rates_all, count_all 0 and
\* the error text of that case.
C15_Witness ==
  /\ program = "server" /\ cacheBy = 2
  /\ cache.http_code = Num(200) /\ ~cache.ok
  /\ cache.error = Str(<<"JSON fetched but no price_* items found.">>)
  /\ cache.rates_all = <<>> /\ cache.count_all = 0

====
